---- MODULE Spec2Model ----
(***************************************************************************)
(* State-machine model of sloty_gantt_5_4.py: the slot-availability and    *)
(* booking core of the Streamlit page (session state, booking store,       *)
(* availability scan, manual booking, auto-fill, deletion, clearing and    *)
(* JSON persistence).                                                      *)
(*                                                                         *)
(* Time is counted in minutes.  A time of day is a number 0..1439, a date  *)
(* is a day number, and a (naive) datetime is day * 1440 + minute of day.  *)
(* One action of the model is one run of the script triggered by one       *)
(* widget event; the auto-fill loop is split into its rounds and turns.    *)
(***************************************************************************)
EXTENDS Integers, Sequences, FiniteSets, TLC

VARIABLES
    slot_types,        \* st.session_state.slot_types : list of {name, minutes, weight}
    brygady,           \* st.session_state.brygady : list of crew names
    working_hours,     \* st.session_state.working_hours : crew -> <<start, end>>
    schedules,         \* st.session_state.schedules : crew -> day key -> list of slots
    clients_added,     \* st.session_state.clients_added
    client_counter,    \* st.session_state.client_counter
    not_found_counter, \* st.session_state.not_found_counter
    booking_day,       \* st.session_state.booking_day
    disk,              \* content of schedules.json ([exists |-> FALSE] when there is none)
    peer,              \* st.session_state of a second browser session on the same file
    af,                \* the locals of the running auto-fill handler (pc = "idle" when none runs)
    last               \* what the last step did (observation only, never read by an action)

vars == <<slot_types, brygady, working_hours, schedules, clients_added,
          client_counter, not_found_counter, booking_day, disk, peer, af, last>>

----------------------------------------------------------------------------
(* Bounds of the model *)

\* the button "Rezerwuj" is pressed only while client_counter <= MaxManual
MaxManual == 2
\* the auto-fill button is pressed only while client_counter <= MaxAutoStart
MaxAutoStart == 1
MaxUnsaved == 1
\* the cap of the auto-fill loop (5000 in the source), scaled to the model's days
max_iterations == 2

----------------------------------------------------------------------------
(* Program constants *)

SEARCH_STEP_MINUTES == 15
MinutesPerDay == 24 * 60

T(h, m) == h * 60 + m

DEFAULT_WORK_START == T(8, 0)
DEFAULT_WORK_END == T(16, 0)

None == "None"
\* a dict without the key "pref_range"
Absent == "<no key>"

PREFERRED_SLOTS ==
    [l \in {"8:00-11:00", "11:00-14:00", "14:00-17:00", "17:00-20:00"} |->
        CASE l = "8:00-11:00" -> <<T(8, 0), T(11, 0)>>
          [] l = "11:00-14:00" -> <<T(11, 0), T(14, 0)>>
          [] l = "14:00-17:00" -> <<T(14, 0), T(17, 0)>>
          [] l = "17:00-20:00" -> <<T(17, 0), T(20, 0)>>]

----------------------------------------------------------------------------
(* Inputs the model draws from *)

\* date.today(): the day of the booking form and the default of the auto-fill date input
Today == 0

\* the days of the week the table shows
week_days == {Today, Today + 1}

\* crew names in Python's string order
CrewNames == <<"Brygada 1", "Brygada 2">>

CrewsOf(bs) == {bs[i] : i \in 1 .. Len(bs)}

\* the names a crew can have, in Python's string order
AllCrewNames == <<"Brygada 1", "Brygada 2", "Brygada 3">>

NameRank(b) == CHOOSE i \in 1 .. Len(AllCrewNames) : AllCrewNames[i] = b

\* the crew lists of the loaded state
BrygadyChoices == {<<"Brygada 1", "Brygada 2">>, <<"Brygada 2", "Brygada 1">>}

\* the working hours of the loaded state: both crews 08:00-09:00, or the second
\* of them 10:30-11:30
WorkingHoursChoices ==
    {[b \in CrewsOf(CrewNames) |-> <<T(8, 0), T(9, 0)>>],
     [b \in CrewsOf(CrewNames) |->
        IF b = CrewNames[1] THEN <<T(8, 0), T(9, 0)>> ELSE <<T(10, 30), T(11, 30)>>]}

Standard == [name |-> "Standard", minutes |-> 60, weight |-> 1]
T30 == [name |-> "T30", minutes |-> 30, weight |-> 1]

\* the slot types of the loaded state
slot_types_loaded == <<T30, Standard>>

----------------------------------------------------------------------------
(* Dates, times and their text forms *)

\* datetime.combine(day, t)
combine(day, t) == day * MinutesPerDay + t

\* day.strftime("%Y-%m-%d"): the day key of the schedules dict
strftime(day) == <<"Y-m-d", day>>

\* dt.isoformat() of a datetime without seconds: date part, hour, minute
_datetime_to_iso(dt) ==
    <<dt \div MinutesPerDay, (dt % MinutesPerDay) \div 60, (dt % MinutesPerDay) % 60, 0>>

\* datetime.fromisoformat(s)
parse_datetime_iso(s) == s[1] * MinutesPerDay + s[2] * 60 + s[3]

\* t.isoformat() of a time of day
_time_to_iso(t) == <<t \div 60, t % 60, 0>>

\* time.fromisoformat(t)
parse_time_str(s) == s[1] * 60 + s[2]

\* a pair of times combined with the day as it is
window_same_day(day, t_start, t_end) == <<combine(day, t_start), combine(day, t_end)>>

\* the (start, end) datetimes of a pair of times of day on a day: an end that
\* is not after the start is moved to the next day
window(day, t_start, t_end) ==
    LET s == combine(day, t_start)
        e == combine(day, t_end)
    IN  IF e <= s THEN <<s, e + MinutesPerDay>> ELSE <<s, e>>

_wh_minutes(wh_start, wh_end) ==
    LET w == window(0, wh_start, wh_end) IN w[2] - w[1]

Max(a, b) == IF a >= b THEN a ELSE b
Min(a, b) == IF a <= b THEN a ELSE b

----------------------------------------------------------------------------
(* Sequences *)

Range(s) == {s[i] : i \in 1 .. Len(s)}

RECURSIVE SeqSum(_)
SeqSum(s) == IF s = <<>> THEN 0 ELSE Head(s) + SeqSum(Tail(s))

\* (k1, k2) < (l1, l2) as Python compares tuples
KeyLess(a, b) == a[1] < b[1] \/ (a[1] = b[1] /\ a[2] < b[2])

RECURSIVE InsertSorted(_, _)
\* the keyed item x put into the sorted list s after every item whose key is <= its key
InsertSorted(s, x) ==
    IF s = <<>> THEN <<x>>
    ELSE IF KeyLess(x, Head(s)) THEN <<x>> \o s
    ELSE <<Head(s)>> \o InsertSorted(Tail(s), x)

RECURSIVE StableSort(_)
\* list.sort(key=...) on a list of <<k1, k2, item>>: stable, ascending by (k1, k2)
StableSort(s) ==
    IF s = <<>> THEN <<>>
    ELSE InsertSorted(StableSort(SubSeq(s, 1, Len(s) - 1)), s[Len(s)])

\* sorted(slots, key=lambda s: s["start"])
sort_by_start(slots) ==
    LET keyed == [i \in 1 .. Len(slots) |-> <<slots[i].start, 0, slots[i]>>]
        sorted == StableSort(keyed)
    IN  [i \in 1 .. Len(slots) |-> sorted[i][3]]

----------------------------------------------------------------------------
(* Dicts *)

EmptyDict == [k \in {} |-> k]

\* d.get(k, default)
Get(d, k, default) == IF k \in DOMAIN d THEN d[k] ELSE default

\* d[k] = v
Put(d, k, v) == [x \in DOMAIN d \cup {k} |-> IF x = k THEN v ELSE d[x]]

----------------------------------------------------------------------------
(* SCHEDULE MANAGEMENT *)

get_day_slots_for_brygada(sched, brygada, day) ==
    sort_by_start(Get(Get(sched, brygada, EmptyDict), strftime(day), <<>>))

\* an append that leaves the list as it is
add_slot_unsorted(sched, brygada, day, slot) ==
    LET d == strftime(day)
        days == Get(sched, brygada, EmptyDict)
        slots == Get(days, d, <<>>)
    IN  Put(sched, brygada, Put(days, d, Append(slots, slot)))

\* an append that rebuilds the schedules with the one crew only
add_slot_single_crew(sched, brygada, day, slot) ==
    LET d == strftime(day)
        days == Get(sched, brygada, EmptyDict)
        slots == Get(days, d, <<>>)
    IN  Put(EmptyDict, brygada, Put(days, d, sort_by_start(Append(slots, slot))))

\* the schedules after add_slot_to_brygada(brygada, day, slot), before its save
add_slot_to_brygada(sched, brygada, day, slot) ==
    LET d == strftime(day)
        days == Get(sched, brygada, EmptyDict)
        slots == Get(days, d, <<>>)
    IN  Put(sched, brygada, Put(days, d, sort_by_start(Append(slots, slot))))

NotStart(s, start_iso) == _datetime_to_iso(s.start) # start_iso

\* a delete that rebuilds the crew's entry with the one day only
delete_slot_single_day(sched, brygada, day_str, start_iso) ==
    LET days == Get(sched, brygada, EmptyDict)
        slots == Get(days, day_str, <<>>)
        kept == SelectSeq(slots, LAMBDA s : _datetime_to_iso(s.start) # start_iso)
    IN  Put(sched, brygada, Put(EmptyDict, day_str, kept))

\* the schedules after delete_slot(brygada, day_str, start_iso)
delete_slot(sched, brygada, day_str, start_iso) ==
    LET days == Get(sched, brygada, EmptyDict)
        slots == Get(days, day_str, <<>>)
        kept == SelectSeq(slots, LAMBDA s : NotStart(s, start_iso))
    IN  Put(sched, brygada, Put(days, day_str, kept))

\* before != after in delete_slot: whether it saves
delete_slot_saves(sched, brygada, day_str, start_iso) ==
    LET old == Get(Get(sched, brygada, EmptyDict), day_str, <<>>)
        new == delete_slot(sched, brygada, day_str, start_iso)[brygada][day_str]
    IN  Len(old) # Len(new)

\* sum(s["duration_min"] for s in slots)
used_minutes(slots) == SeqSum([i \in 1 .. Len(slots) |-> slots[i].duration_min])

RECURSIVE SumOverDays(_, _)
SumOverDays(days, keys) ==
    IF keys = {} THEN 0
    ELSE LET k == CHOOSE x \in keys : TRUE
         IN  used_minutes(days[k]) + SumOverDays(days, keys \ {k})

\* sum(s["duration_min"] for d in schedules.get(b, {}).values() for s in d)
total_minutes(sched, b) ==
    LET days == Get(sched, b, EmptyDict) IN SumOverDays(days, DOMAIN days)

\* a check that only asks whether t falls inside a stored slot
overlap_start_only(t, t_end, existing) ==
    \E i \in 1 .. Len(existing) : existing[i].start <= t /\ t < existing[i].end

\* a check that counts a shared endpoint as an overlap
overlap_closed(t, t_end, existing) ==
    \E i \in 1 .. Len(existing) : ~(t_end < existing[i].start \/ t > existing[i].end)

\* any(not (t_end <= s["start"] or t >= s["end"]) for s in existing)
overlap(t, t_end, existing) ==
    \E i \in 1 .. Len(existing) : ~(t_end <= existing[i].start \/ t >= existing[i].end)

----------------------------------------------------------------------------
(* Availability scan of the booking form *)

RECURSIVE scan_day_start_inside(_, _, _, _, _, _)
\* a loop that only asks the start to lie before the end of the window
scan_day_start_inside(b, t, day_end, slot_minutes, step_minutes, existing) ==
    IF t < day_end
    THEN (IF ~overlap(t, t + slot_minutes, existing)
          THEN <<[brygada |-> b, start |-> t, end |-> t + slot_minutes]>>
          ELSE <<>>)
         \o scan_day_start_inside(b, t + step_minutes, day_end, slot_minutes, step_minutes,
                                  existing)
    ELSE <<>>

RECURSIVE scan_day(_, _, _, _, _, _)
\* the while loop of get_available_slots_for_day from t on, for crew b
scan_day(b, t, day_end, slot_minutes, step_minutes, existing) ==
    IF t + slot_minutes <= day_end
    THEN (IF ~overlap(t, t + slot_minutes, existing)
          THEN <<[brygada |-> b, start |-> t, end |-> t + slot_minutes]>>
          ELSE <<>>)
         \o scan_day(b, t + step_minutes, day_end, slot_minutes, step_minutes, existing)
    ELSE <<>>

RECURSIVE scan_crews(_, _, _, _, _, _)
\* the for loop of get_available_slots_for_day over the crews bs
scan_crews(bs, wh, sched, day, slot_minutes, step_minutes) ==
    IF bs = <<>> THEN <<>>
    ELSE LET b == Head(bs)
             hours == Get(wh, b, <<DEFAULT_WORK_START, DEFAULT_WORK_END>>)
             w == window(day, hours[1], hours[2])
             existing == get_day_slots_for_brygada(sched, b, day)
         IN  scan_day(b, w[1], w[2], slot_minutes, step_minutes, existing)
             \o scan_crews(Tail(bs), wh, sched, day, slot_minutes, step_minutes)

\* a sort by crew first and start second
sort_available_by_crew(available) ==
    LET keyed == [i \in 1 .. Len(available) |->
                    <<NameRank(available[i].brygada), available[i].start, available[i]>>]
        sorted == StableSort(keyed)
    IN  [i \in 1 .. Len(available) |-> sorted[i][3]]

\* available.sort(key=lambda x: (x["start"], x["brygada"]))
sort_available(available) ==
    LET keyed == [i \in 1 .. Len(available) |->
                    <<available[i].start, NameRank(available[i].brygada), available[i]>>]
        sorted == StableSort(keyed)
    IN  [i \in 1 .. Len(available) |-> sorted[i][3]]

get_available_slots_for_day(bs, wh, sched, day, slot_minutes, step_minutes) ==
    sort_available(scan_crews(bs, wh, sched, day, slot_minutes, step_minutes))

----------------------------------------------------------------------------
(* schedule_client_immediately *)

\* whether next((s for s in slot_types if s["name"] == name), None) finds a type
has_slot_type(types, name) == \E i \in 1 .. Len(types) : types[i].name = name

\* next((s for s in slot_types if s["name"] == name), None), when it finds one
find_slot_type(types, name) ==
    types[CHOOSE i \in 1 .. Len(types) :
             /\ types[i].name = name
             /\ \A j \in 1 .. i - 1 : types[j].name # name]

\* any(not (t + dur <= s["start"] or t >= s["end"]) for s in existing)
overlap_pref(t, dur, existing) ==
    \E i \in 1 .. Len(existing) : ~(t + dur <= existing[i].start \/ t >= existing[i].end)

RECURSIVE scan_pref_start_inside(_, _, _, _, _)
\* a loop that asks only for the start to lie inside the window
scan_pref_start_inside(b, t, end_dt, dur, existing) ==
    IF t < end_dt
    THEN (IF ~overlap_pref(t, dur, existing) THEN <<<<b, t, t + dur>>>> ELSE <<>>)
         \o scan_pref_start_inside(b, t + SEARCH_STEP_MINUTES, end_dt, dur, existing)
    ELSE <<>>

RECURSIVE scan_pref(_, _, _, _, _)
\* the while loop of schedule_client_immediately from t on, for crew b
scan_pref(b, t, end_dt, dur, existing) ==
    IF t + dur <= end_dt
    THEN (IF ~overlap_pref(t, dur, existing) THEN <<<<b, t, t + dur>>>> ELSE <<>>)
         \o scan_pref(b, t + SEARCH_STEP_MINUTES, end_dt, dur, existing)
    ELSE <<>>

\* a for loop that scans the first crew of the list only
candidates_of_first_crew(bs, wh, sched, day, dur, pref_start, pref_end) ==
    IF bs = <<>> THEN <<>>
    ELSE LET b == Head(bs)
             existing == get_day_slots_for_brygada(sched, b, day)
             hours == Get(wh, b, <<DEFAULT_WORK_START, DEFAULT_WORK_END>>)
             w == window(day, hours[1], hours[2])
             p == window(day, pref_start, pref_end)
         IN  scan_pref(b, Max(w[1], p[1]), Min(w[2], p[2]), dur, existing)

RECURSIVE candidates_of(_, _, _, _, _, _, _)
\* the for loop of schedule_client_immediately over the crews bs
candidates_of(bs, wh, sched, day, dur, pref_start, pref_end) ==
    IF bs = <<>> THEN <<>>
    ELSE LET b == Head(bs)
             existing == get_day_slots_for_brygada(sched, b, day)
             hours == Get(wh, b, <<DEFAULT_WORK_START, DEFAULT_WORK_END>>)
             w == window(day, hours[1], hours[2])
             p == window(day, pref_start, pref_end)
             start_dt == Max(w[1], p[1])
             end_dt == Min(w[2], p[2])
         IN  scan_pref(b, start_dt, end_dt, dur, existing)
             \o candidates_of(Tail(bs), wh, sched, day, dur, pref_start, pref_end)

\* a sort by start alone, which leaves equal starts in the order of the crews
sort_candidates_by_start(candidates, sched) ==
    LET keyed == [i \in 1 .. Len(candidates) |-> <<candidates[i][2], 0, candidates[i]>>]
        sorted == StableSort(keyed)
    IN  [i \in 1 .. Len(candidates) |-> sorted[i][3]]

\* candidates.sort(key=lambda x: (x[1], total minutes of crew x[0]))
sort_candidates(candidates, sched) ==
    LET keyed == [i \in 1 .. Len(candidates) |->
                    <<candidates[i][2], total_minutes(sched, candidates[i][1]), candidates[i]>>]
        sorted == StableSort(keyed)
    IN  [i \in 1 .. Len(candidates) |-> sorted[i][3]]

\* the result of schedule_client_immediately: ok, the crew and the slot it adds
schedule_client_immediately(types, bs, wh, sched, client_name, slot_type_name, day, pref_start, pref_end) ==
    LET slot_type == find_slot_type(types, slot_type_name)
    IN  IF ~has_slot_type(types, slot_type_name) THEN [ok |-> FALSE]
        ELSE LET candidates == candidates_of(bs, wh, sched, day, slot_type.minutes, pref_start, pref_end)
             IN  IF candidates = <<>> THEN [ok |-> FALSE]
                 ELSE LET first == sort_candidates(candidates, sched)[1]
                      IN  [ok |-> TRUE,
                           brygada |-> first[1],
                           slot |-> [start |-> first[2], end |-> first[3],
                                     slot_type |-> slot_type_name,
                                     duration_min |-> slot_type.minutes,
                                     client |-> client_name,
                                     pref_range |-> Absent]]

----------------------------------------------------------------------------
(* PERSISTENCE *)

\* s.get("pref_range", None)
get_pref_range(s) == IF s.pref_range = Absent THEN None ELSE s.pref_range

slot_to_jsonable(s) ==
    [start |-> _datetime_to_iso(s.start),
     end |-> _datetime_to_iso(s.end),
     slot_type |-> s.slot_type,
     duration_min |-> s.duration_min,
     client |-> s.client,
     pref_range |-> get_pref_range(s)]

schedules_to_jsonable(types, bs, wh, sched, added, counter, not_found) ==
    [slot_types |-> types,
     brygady |-> bs,
     working_hours |-> [b \in DOMAIN wh |-> <<_time_to_iso(wh[b][1]), _time_to_iso(wh[b][2])>>],
     schedules |-> [b \in DOMAIN sched |->
                      [d \in DOMAIN sched[b] |->
                          [i \in 1 .. Len(sched[b][d]) |-> slot_to_jsonable(sched[b][d][i])]]],
     clients_added |-> added,
     client_counter |-> counter,
     not_found_counter |-> not_found]

\* the file after save_state_to_json() of the given state
save_state_to_json(types, bs, wh, sched, added, counter, not_found) ==
    [exists |-> TRUE,
     data |-> schedules_to_jsonable(types, bs, wh, sched, added, counter, not_found)]

slot_from_json(s) ==
    [start |-> parse_datetime_iso(s.start),
     end |-> parse_datetime_iso(s.end),
     slot_type |-> s.slot_type,
     duration_min |-> s.duration_min,
     client |-> s.client,
     pref_range |-> s.pref_range]

\* the session state load_state_from_json() sets from the data of the file
load_state_from_json(data) ==
    [slot_types |-> data.slot_types,
     brygady |-> data.brygady,
     working_hours |-> [b \in DOMAIN data.working_hours |->
                          <<parse_time_str(data.working_hours[b][1]),
                            parse_time_str(data.working_hours[b][2])>>],
     schedules |-> [b \in DOMAIN data.schedules |->
                      [d \in DOMAIN data.schedules[b] |->
                          [i \in 1 .. Len(data.schedules[b][d]) |->
                              slot_from_json(data.schedules[b][d][i])]]],
     clients_added |-> data.clients_added,
     client_counter |-> data.client_counter,
     not_found_counter |-> data.not_found_counter]

\* what load_state_from_json finds at schedules.json: no file, text json.load
\* rejects ("malformed"), a JSON array ("array"), a state whose working hours
\* are not time strings ("bad_hours"), or a state as save_state_to_json writes it
file_kind(f) ==
    IF ~f.exists THEN "missing" ELSE IF "kind" \in DOMAIN f THEN f.kind ELSE "state"

\* the bookings schedules.json holds for crew b under day key d_str
persisted_slots(b, d_str) ==
    IF file_kind(disk) = "state"
    THEN Get(Get(load_state_from_json(disk.data).schedules, b, EmptyDict), d_str, <<>>)
    ELSE <<>>

----------------------------------------------------------------------------
(* The state after INITIALIZATION and the first run of the sidebar *)

\* an ensure that gives the default hours to every listed crew
ensure_working_hours_reset(bs, wh) ==
    [b \in DOMAIN wh \cup CrewsOf(bs) |->
        IF b \in CrewsOf(bs) THEN <<DEFAULT_WORK_START, DEFAULT_WORK_END>> ELSE wh[b]]

\* ensure_brygady_in_state: working_hours with a default entry for each new crew
ensure_working_hours(bs, wh) ==
    [b \in DOMAIN wh \cup CrewsOf(bs) |->
        IF b \in DOMAIN wh THEN wh[b] ELSE <<DEFAULT_WORK_START, DEFAULT_WORK_END>>]

\* ensure_brygady_in_state: schedules with an empty entry for each new crew
ensure_schedules(bs, sched) ==
    [b \in DOMAIN sched \cup CrewsOf(bs) |-> IF b \in DOMAIN sched THEN sched[b] ELSE EmptyDict]


\* no auto-fill handler runs (round_start is not a local of the handler: it
\* records client_counter at the start of the round, for the properties)
AfIdle == [pc |-> "idle", iteration |-> 0, slots_added_in_last_iteration |-> FALSE,
           added_total |-> 0, i |-> 0, day |-> 0, round_start |-> 0]

\* what a step that books nothing leaves in last
Quiet == [op |-> "other", crew |-> None, placed |-> None, iteration |-> 0, added |-> FALSE,
          stale |-> FALSE, picked |-> None, start |-> None, args |-> None]

\* no second session is open
NoSession == [open |-> FALSE]

\* a booking for tomorrow that an earlier session left in schedules.json
earlier_slot(hours) ==
    [start |-> combine(Today + 1, hours[1]), end |-> combine(Today + 1, hours[1]) + Standard.minutes,
     slot_type |-> Standard.name, duration_min |-> Standard.minutes,
     client |-> <<"Klient", 1>>, pref_range |-> None]

\* the session starts from defaults (no file) or from the file of an earlier
\* session that booked one slot for the first crew
Init ==
    /\ slot_types = slot_types_loaded
    /\ brygady \in BrygadyChoices
    /\ working_hours \in WorkingHoursChoices
    /\ clients_added = <<>>
    /\ client_counter = 1
    /\ not_found_counter = 0
    /\ booking_day = Today
    /\ \/ /\ schedules = [b \in CrewsOf(brygady) |-> EmptyDict]
          /\ disk = [exists |-> FALSE]
       \/ /\ schedules = [b \in CrewsOf(brygady) |->
                            IF b = brygady[1]
                            THEN Put(EmptyDict, strftime(Today + 1),
                                     <<earlier_slot(working_hours[b])>>)
                            ELSE EmptyDict]
          /\ disk = save_state_to_json(slot_types, brygady, working_hours, schedules,
                                       clients_added, client_counter, not_found_counter)
    /\ peer = NoSession
    /\ af = AfIdle
    /\ last = Quiet

----------------------------------------------------------------------------
(* Sidebar *)

\* a clear that leaves the client counter as it is
ClearSchedule_keeps_counter ==
    /\ af.pc = "idle"
    /\ schedules' = [b \in CrewsOf(brygady) |-> EmptyDict]
    /\ clients_added' = <<>>
    /\ not_found_counter' = 0
    /\ disk' = save_state_to_json(slot_types, brygady, working_hours, schedules',
                                  clients_added', client_counter, not_found_counter')
    /\ last' = Quiet
    /\ UNCHANGED <<peer, slot_types, brygady, working_hours, booking_day, af, client_counter>>

\* the button "Wyczysc harmonogram"
ClearSchedule ==
    /\ af.pc = "idle"
    /\ schedules' = [b \in CrewsOf(brygady) |-> EmptyDict]
    /\ clients_added' = <<>>
    /\ client_counter' = 1
    /\ not_found_counter' = 0
    /\ disk' = save_state_to_json(slot_types, brygady, working_hours, schedules',
                                  clients_added', client_counter', not_found_counter')
    /\ last' = Quiet
    /\ UNCHANGED <<peer, slot_types, brygady, working_hours, booking_day, af>>

----------------------------------------------------------------------------
(* Booking form *)

\* the value of the client name input: f"Klient {client_counter}" unless retyped
default_client == <<"Klient", client_counter>>

\* available_slots as the run computes it for the selected slot type
available_slots(slot_type) ==
    get_available_slots_for_day(brygady, working_hours, schedules, booking_day,
                                slot_type.minutes, SEARCH_STEP_MINUTES)

\* the slot record the handler builds for the offered slot s
manual_slot(s, slot_type, client_name) ==
    [start |-> s.start, end |-> s.end, slot_type |-> slot_type.name,
     duration_min |-> slot_type.minutes, client |-> client_name, pref_range |-> None]

\* the button "Rezerwuj" of the offered slot s, with the slot type of index ti selected
ManualBook(ti, s) ==
    /\ af.pc = "idle"
    /\ client_counter <= MaxManual
    /\ schedules' = add_slot_to_brygada(schedules, s.brygada, booking_day,
                                        manual_slot(s, slot_types[ti], default_client))
    /\ disk' = save_state_to_json(slot_types, brygady, working_hours, schedules',
                                  clients_added, client_counter, not_found_counter)
    /\ clients_added' = Append(clients_added,
                               [client |-> default_client, slot_type |-> slot_types[ti].name,
                                pref_range |-> None])
    /\ client_counter' = client_counter + 1
    /\ last' = [Quiet EXCEPT !.op = "book", !.crew = s.brygada, !.placed = s.brygada,
                             !.added = TRUE,
                             !.stale = overlap(s.start, s.end,
                                               persisted_slots(s.brygada, strftime(booking_day)))]
    /\ UNCHANGED <<peer, slot_types, brygady, working_hours, not_found_counter, booking_day, af>>

----------------------------------------------------------------------------
(* AUTO-FILL FULL DAY *)

\* random.choices raises ValueError when the weights sum to 0
ValueError == "ValueError"

\* what weighted_choice(types) can return: None for the empty list, else what
\* random.choices(names, weights) yields: a name of weight > 0; with all weights
\* 0 it raises ValueError (Python 3.9 and later) or yields the last name (before)
weighted_choice(types) ==
    IF types = <<>> THEN {None}
    ELSE IF \A i \in 1 .. Len(types) : types[i].weight = 0
    THEN {ValueError, types[Len(types)].name}
    ELSE {types[i].name : i \in {j \in 1 .. Len(types) : types[j].weight > 0}}

\* the button "Wypelnij caly dzien do 100%" with the date input at day
AutoFillStart(day) ==
    /\ af.pc = "idle"
    /\ client_counter <= MaxAutoStart
    /\ af' = [pc |-> "while", iteration |-> 0, slots_added_in_last_iteration |-> TRUE,
              added_total |-> 0, i |-> 0, day |-> day, round_start |-> 0]
    /\ last' = Quiet
    /\ UNCHANGED <<peer, slot_types, brygady, working_hours, schedules, clients_added,
                   client_counter, not_found_counter, booking_day, disk>>

\* a loop condition without the iteration cap
AutoFillRound_uncapped ==
    /\ af.pc = "while"
    /\ af.slots_added_in_last_iteration
    /\ af' = [af EXCEPT !.pc = "for", !.iteration = af.iteration + 1,
                        !.slots_added_in_last_iteration = FALSE, !.i = 1,
                        !.round_start = client_counter]
    /\ last' = Quiet
    /\ UNCHANGED <<peer, slot_types, brygady, working_hours, schedules, clients_added,
                   client_counter, not_found_counter, booking_day, disk>>

\* while iteration < max_iterations and slots_added_in_last_iteration: a round begins
AutoFillRound ==
    /\ af.pc = "while"
    /\ af.iteration < max_iterations /\ af.slots_added_in_last_iteration
    /\ af' = [af EXCEPT !.pc = "for", !.iteration = af.iteration + 1,
                        !.slots_added_in_last_iteration = FALSE, !.i = 1,
                        !.round_start = client_counter]
    /\ last' = Quiet
    /\ UNCHANGED <<peer, slot_types, brygady, working_hours, schedules, clients_added,
                   client_counter, not_found_counter, booking_day, disk>>

\* schedules.setdefault(b, {}); schedules[b].setdefault(d_str, [])
setdefault_day(sched, b, d_str) ==
    LET days == Get(sched, b, EmptyDict)
    IN  Put(sched, b, Put(days, d_str, Get(days, d_str, <<>>)))

\* for s in schedules[b][d_str]: if client and start match: s["pref_range"] = label
tag_pref_range(sched, b, d_str, client_name, start, label) ==
    [sched EXCEPT ![b][d_str] =
        [i \in 1 .. Len(@) |->
            IF @[i].client = client_name /\ @[i].start = start
            THEN [@[i] EXCEPT !.pref_range = label]
            ELSE @[i]]]

\* the position after the turn of the crew at index i
after_turn(i) ==
    IF i < Len(brygady) THEN [af EXCEPT !.i = i + 1] ELSE [af EXCEPT !.pc = "while", !.i = 0]

\* the turn of crew b when schedule_client_immediately returned r for the drawn
\* auto_type and auto_pref_label (sched0: the schedules after the two setdefault)
turn_effect(b, d_str, sched0, client_name, auto_type, auto_pref_label, r) ==
    IF used_minutes(sched0[b][d_str]) >= _wh_minutes(working_hours[b][1], working_hours[b][2])
    THEN \* continue: the crew is full
         /\ schedules' = sched0
         /\ af' = after_turn(af.i)
         /\ last' = [Quiet EXCEPT !.op = "turn", !.crew = b]
         /\ UNCHANGED <<clients_added, client_counter, disk>>
    ELSE IF r.ok
    THEN /\ \E sched1 \in {add_slot_to_brygada(sched0, r.brygada, af.day, r.slot)} :
              /\ disk' = save_state_to_json(slot_types, brygady, working_hours, sched1,
                                            clients_added, client_counter, not_found_counter)
              /\ schedules' = tag_pref_range(sched1, b, d_str, client_name, r.slot.start,
                                             auto_pref_label)
         /\ clients_added' = Append(clients_added,
                                    [client |-> client_name, slot_type |-> auto_type,
                                     pref_range |-> auto_pref_label])
         /\ client_counter' = client_counter + 1
         /\ af' = [after_turn(af.i) EXCEPT !.added_total = af.added_total + 1,
                                           !.slots_added_in_last_iteration = TRUE]
         /\ last' = [Quiet EXCEPT !.op = "turn", !.crew = b, !.placed = r.brygada,
                                  !.added = TRUE]
    ELSE /\ schedules' = sched0
         /\ af' = after_turn(af.i)
         /\ last' = [Quiet EXCEPT !.op = "turn", !.crew = b]
         /\ UNCHANGED <<clients_added, client_counter, disk>>

\* one pass of the for loop: the turn of crew brygady[af.i], which draws
\* auto_type and auto_pref_label
AutoFillTurn(auto_type, auto_pref_label) ==
    /\ af.pc = "for"
    /\ auto_type \in weighted_choice(slot_types)
    /\ auto_pref_label \in DOMAIN PREFERRED_SLOTS
    /\ \E sched0 \in {setdefault_day(schedules, brygady[af.i], strftime(af.day))} :
       \E r \in {schedule_client_immediately(
                    slot_types, brygady, working_hours, sched0,
                    <<"AutoKlient", client_counter>>, auto_type, af.day,
                    PREFERRED_SLOTS[auto_pref_label][1], PREFERRED_SLOTS[auto_pref_label][2])} :
          turn_effect(brygady[af.i], strftime(af.day), sched0,
                      <<"AutoKlient", client_counter>>, auto_type, auto_pref_label, r)
    /\ UNCHANGED <<peer, slot_types, brygady, working_hours, not_found_counter, booking_day>>

\* the while condition fails: autofill_done is set and the page reruns
AutoFillDone ==
    /\ af.pc = "while"
    /\ ~(af.iteration < max_iterations /\ af.slots_added_in_last_iteration)
    /\ af' = AfIdle
    /\ last' = [Quiet EXCEPT !.op = "done", !.iteration = af.iteration,
                             !.added = af.slots_added_in_last_iteration]
    /\ UNCHANGED <<peer, slot_types, brygady, working_hours, schedules, clients_added,
                   client_counter, not_found_counter, booking_day, disk>>

----------------------------------------------------------------------------
(* Slot management *)

\* the button "Usun" of the row of slot s of crew b on day d
DeleteSlot(b, d, s) ==
    /\ af.pc = "idle"
    /\ \E sched1 \in {delete_slot(schedules, b, strftime(d), _datetime_to_iso(s.start))} :
          /\ schedules' = sched1
          /\ disk' = IF delete_slot_saves(schedules, b, strftime(d), _datetime_to_iso(s.start))
                     THEN save_state_to_json(slot_types, brygady, working_hours, sched1,
                                             clients_added, client_counter, not_found_counter)
                     ELSE disk
    /\ last' = [Quiet EXCEPT !.op = "delete", !.crew = b]
    /\ UNCHANGED <<peer, slot_types, brygady, working_hours, clients_added, client_counter,
                   not_found_counter, booking_day, af>>

----------------------------------------------------------------------------

AutoFillStep ==
    \/ AutoFillRound
    \/ \E auto_type \in {Standard.name, T30.name}, label \in DOMAIN PREFERRED_SLOTS :
          AutoFillTurn(auto_type, label)
    \/ AutoFillDone

\* a click on one of the "Rezerwuj" buttons the page shows
BookOffered ==
    \E ti \in 1 .. Len(slot_types) :
       \E s \in Range(available_slots(slot_types[ti])) : ManualBook(ti, s)

\* a click on one of the "Usun" buttons the page shows
DeleteShown ==
    \E b \in CrewsOf(brygady), d \in week_days :
       \E s \in Range(Get(Get(schedules, b, EmptyDict), strftime(d), <<>>)) :
          DeleteSlot(b, d, s)

Next ==
    \/ ClearSchedule
    \/ BookOffered
    \/ AutoFillStart(Today)
    \/ AutoFillStep
    \/ DeleteShown

Spec == Init /\ [][Next]_vars

\* the sessions in which the user books and deletes by hand: the store states
\* the availability scan and delete_slot are asked about
FormNext ==
    \/ ClearSchedule
    \/ BookOffered
    \/ DeleteShown

FormSpec == Init /\ [][FormNext]_vars

----------------------------------------------------------------------------
(* A session whose crews work over midnight *)

\* a slot type of 90 minutes, as the slot types editor parses "T90,90,1"
T90 == [name |-> "T90", minutes |-> 90, weight |-> 1]

\* hours 22:00-06:00 for the first crew and 23:00-01:00 for the second
NightHours ==
    [b \in CrewsOf(CrewNames) |->
        IF b = CrewNames[1] THEN <<T(22, 0), T(6, 0)>> ELSE <<T(23, 0), T(1, 0)>>]

\* the session after the sidebar set the night hours and the slot type T90
NightInit ==
    /\ slot_types = <<T90>>
    /\ brygady = CrewNames
    /\ working_hours = NightHours
    /\ schedules = [b \in CrewsOf(brygady) |-> EmptyDict]
    /\ clients_added = <<>>
    /\ client_counter = 1
    /\ not_found_counter = 0
    /\ booking_day = Today
    /\ disk = [exists |-> FALSE]
    /\ peer = NoSession
    /\ af = AfIdle
    /\ last = Quiet

NightSpec == NightInit /\ [][FormNext]_vars

----------------------------------------------------------------------------
(* A session loaded from a file whose only slot type has 0 minutes *)

\* a slot type load_state_from_json takes from the file as it is; the editor
\* of the sidebar skips its line and, with no other line, keeps slot_types
Zero == [name |-> "Zero", minutes |-> 0, weight |-> 1]

ZeroInit ==
    /\ slot_types = <<Zero>>
    /\ brygady = CrewNames
    /\ working_hours = [b \in CrewsOf(CrewNames) |-> <<T(8, 0), T(9, 0)>>]
    /\ schedules = [b \in CrewsOf(brygady) |-> EmptyDict]
    /\ clients_added = <<>>
    /\ client_counter = 1
    /\ not_found_counter = 0
    /\ booking_day = Today
    /\ disk = save_state_to_json(slot_types, brygady, working_hours, schedules,
                                 clients_added, client_counter, not_found_counter)
    /\ peer = NoSession
    /\ af = AfIdle
    /\ last = Quiet

ZeroSpec == ZeroInit /\ [][FormNext]_vars

----------------------------------------------------------------------------
(* A session in which the list of crews is edited *)

\* the lists typed into "Lista brygad"
BrygadyEdits == {<<"Brygada 1", "Brygada 2", "Brygada 3">>, <<"Brygada 3", "Brygada 1">>,
                 <<"Brygada 1", "Brygada 2">>, <<"Brygada 2">>, <<"Brygada 3">>}

\* the text area "Lista brygad" holds brygady_new: the list is replaced and
\* ensure_brygady_in_state adds what the new crews lack
EditBrygady(brygady_new) ==
    /\ af.pc = "idle"
    /\ brygady_new # <<>> /\ brygady_new # brygady
    /\ brygady' = brygady_new
    /\ working_hours' = ensure_working_hours(brygady_new, working_hours)
    /\ schedules' = ensure_schedules(brygady_new, schedules)
    /\ last' = [Quiet EXCEPT !.op = "crews"]
    /\ UNCHANGED <<peer, slot_types, clients_added, client_counter, not_found_counter,
                   booking_day, disk, af>>

\* the crew list is edited, the schedule cleared, slots of the file deleted
CrewNext ==
    \/ \E brygady_new \in BrygadyEdits : EditBrygady(brygady_new)
    \/ ClearSchedule
    \/ DeleteShown

CrewSpec == Init /\ [][CrewNext]_vars

----------------------------------------------------------------------------
(* A session in which the slot types are edited *)

\* the session state INITIALIZATION sets when load_state_from_json returns False
default_state ==
    [slot_types |-> <<Standard>>,
     brygady |-> <<"Brygada 1", "Brygada 2">>,
     working_hours |-> EmptyDict,
     schedules |-> EmptyDict,
     clients_added |-> <<>>,
     client_counter |-> 1,
     not_found_counter |-> 0]

\* the first run of a session without a file, up to the end of the sidebar
DefaultInit ==
    /\ slot_types = default_state.slot_types
    /\ brygady = default_state.brygady
    /\ working_hours = ensure_working_hours(default_state.brygady, default_state.working_hours)
    /\ schedules = ensure_schedules(default_state.brygady, default_state.schedules)
    /\ clients_added = default_state.clients_added
    /\ client_counter = default_state.client_counter
    /\ not_found_counter = default_state.not_found_counter
    /\ booking_day = Today
    /\ disk = [exists |-> FALSE]
    /\ peer = NoSession
    /\ af = AfIdle
    /\ last = Quiet

\* the lines "Nazwa, minuty, waga" parse_slot_types accepts: minutes > 0, weight >= 0
ParsedLines ==
    {[name |-> t.name, minutes |-> t.minutes, weight |-> w] : t \in {Standard, T30, T90}, w \in {0, 1, 2}}

\* the non-empty lists parse_slot_types returns for the text typed into the editor
ParsedChoices == {<<a>> : a \in ParsedLines} \cup {<<a, b>> : a \in ParsedLines, b \in ParsedLines}

\* a run of the script with the slot types editor holding the text of parsed,
\* down to the pick of the booking form: auto_type = weighted_choice(slot_types)
RunWithSlotTypes(parsed, outcome) ==
    /\ af.pc = "idle"
    /\ slot_types' = parsed
    /\ outcome \in weighted_choice(parsed)
    /\ last' = [Quiet EXCEPT !.op = "pick", !.picked = outcome]
    /\ UNCHANGED <<peer, brygady, working_hours, schedules, clients_added, client_counter,
                   not_found_counter, booking_day, disk, af>>

PickNext ==
    \E parsed \in ParsedChoices :
       \E outcome \in weighted_choice(parsed) : RunWithSlotTypes(parsed, outcome)

PickSpec == DefaultInit /\ [][PickNext]_vars

----------------------------------------------------------------------------
(* A session in which save_state_to_json can fail *)

\* a failed save that takes the appended booking out of memory again
ManualBookSaveFails_undone(ti, s) ==
    /\ af.pc = "idle"
    /\ last' = [Quiet EXCEPT !.op = "save_failed", !.crew = s.brygada, !.placed = s.brygada,
                             !.start = s.start]
    /\ UNCHANGED <<peer, slot_types, brygady, working_hours, schedules, clients_added,
                   client_counter, not_found_counter, booking_day, disk, af>>

\* the button "Rezerwuj" when save_state_to_json raises (the temporary file
\* cannot be written or os.replace fails): add_slot_to_brygada has appended and
\* sorted, schedules.json is as before, and the exception ends the run before
\* clients_added and client_counter are updated
ManualBookSaveFails(ti, s) ==
    /\ af.pc = "idle"
    /\ schedules' = add_slot_to_brygada(schedules, s.brygada, booking_day,
                                        manual_slot(s, slot_types[ti], default_client))
    /\ last' = [Quiet EXCEPT !.op = "save_failed", !.crew = s.brygada, !.placed = s.brygada,
                             !.start = s.start]
    /\ UNCHANGED <<peer, slot_types, brygady, working_hours, clients_added, client_counter,
                   not_found_counter, booking_day, disk, af>>

\* the bookings of every crew and day, as a set of <<crew, day key, booking>>
Bookings(sched) ==
    UNION {UNION {{<<b, d, sched[b][d][i]>> : i \in 1 .. Len(sched[b][d])} :
                     d \in DOMAIN sched[b]} : b \in DOMAIN sched}

\* the schedules a load of schedules.json returns
persisted_schedules ==
    IF file_kind(disk) = "state" THEN load_state_from_json(disk.data).schedules ELSE EmptyDict

\* the bookings in memory that schedules.json does not hold
unsaved == {x \in Bookings(schedules) : x[3] \notin Range(persisted_slots(x[1], x[2]))}

\* a click on "Rezerwuj" at a moment the file cannot be written
BookOfferedSaveFails ==
    /\ Cardinality(unsaved) < MaxUnsaved
    /\ \E ti \in 1 .. Len(slot_types) :
          \E s \in Range(available_slots(slot_types[ti])) : ManualBookSaveFails(ti, s)

SaveFailNext ==
    \/ ClearSchedule
    \/ BookOffered
    \/ BookOfferedSaveFails
    \/ DeleteShown

\* the initial states with the crews in the order of the defaults, all of them
\* working 08:00-09:00
SaveFailInit ==
    /\ Init
    /\ brygady = CrewNames
    /\ working_hours = [b \in CrewsOf(CrewNames) |-> <<T(8, 0), T(9, 0)>>]

SaveFailSpec == SaveFailInit /\ [][SaveFailNext]_vars

----------------------------------------------------------------------------
(* A second browser session on the same schedules.json *)

\* the first run of the script in a new session while the file exists:
\* INITIALIZATION loads the file, the sidebar calls ensure_brygady_in_state
PeerOpen ==
    /\ ~peer.open
    /\ disk.exists
    /\ \E st \in {load_state_from_json(disk.data)} :
          peer' = [open |-> TRUE,
                   slot_types |-> st.slot_types,
                   brygady |-> st.brygady,
                   working_hours |-> ensure_working_hours(st.brygady, st.working_hours),
                   schedules |-> ensure_schedules(st.brygady, st.schedules),
                   clients_added |-> st.clients_added,
                   client_counter |-> st.client_counter,
                   not_found_counter |-> st.not_found_counter]
    /\ last' = Quiet
    /\ UNCHANGED <<slot_types, brygady, working_hours, schedules, clients_added,
                   client_counter, not_found_counter, booking_day, disk, af>>

\* available_slots as a run of the second session computes it, for today
peer_available_slots(slot_type) ==
    get_available_slots_for_day(peer.brygady, peer.working_hours, peer.schedules, Today,
                                slot_type.minutes, SEARCH_STEP_MINUTES)

\* the button "Rezerwuj" of the offered slot s in the second session
PeerBook(ti, s) ==
    /\ peer.open
    /\ peer.client_counter <= MaxManual
    /\ \E sched1 \in {add_slot_to_brygada(peer.schedules, s.brygada, Today,
                                           manual_slot(s, peer.slot_types[ti],
                                                       <<"Klient", peer.client_counter>>))} :
          /\ disk' = save_state_to_json(peer.slot_types, peer.brygady, peer.working_hours,
                                        sched1, peer.clients_added, peer.client_counter,
                                        peer.not_found_counter)
          /\ peer' = [peer EXCEPT
                        !.schedules = sched1,
                        !.clients_added =
                            Append(@, [client |-> <<"Klient", peer.client_counter>>,
                                       slot_type |-> peer.slot_types[ti].name,
                                       pref_range |-> None]),
                        !.client_counter = @ + 1]
    /\ last' = [Quiet EXCEPT !.op = "book", !.crew = s.brygada, !.placed = s.brygada,
                             !.added = TRUE,
                             !.stale = overlap(s.start, s.end,
                                               persisted_slots(s.brygada, strftime(Today)))]
    /\ UNCHANGED <<slot_types, brygady, working_hours, schedules, clients_added,
                   client_counter, not_found_counter, booking_day, af>>

\* a click on one of the "Rezerwuj" buttons the page of the second session shows
PeerBookOffered ==
    \E ti \in 1 .. Len(slot_types) :
       \E s \in (IF peer.open THEN Range(peer_available_slots(peer.slot_types[ti])) ELSE {}) :
          PeerBook(ti, s)

\* two sessions that use the booking form
SessionsNext ==
    \/ BookOffered
    \/ PeerOpen
    \/ PeerBookOffered

SessionsSpec == Init /\ [][SessionsNext]_vars

----------------------------------------------------------------------------
(* Sessions opened on a schedules.json that was changed outside the program *)

FileDamages == {"missing", "malformed", "array", "bad_hours"}

\* the file after it was removed, overwritten with other text, or edited
damaged(f, kind) ==
    CASE kind = "missing" -> [exists |-> FALSE]
      [] kind = "bad_hours" -> [exists |-> TRUE, kind |-> kind, data |-> f.data]
      [] OTHER -> [exists |-> TRUE, kind |-> kind]

\* schedules.json is removed or rewritten by something else than the program
DamageFile(kind) ==
    /\ kind = "bad_hours" => file_kind(disk) = "state"
    /\ disk' = damaged(disk, kind)
    /\ last' = Quiet
    /\ UNCHANGED <<peer, slot_types, brygady, working_hours, schedules, clients_added,
                   client_counter, not_found_counter, booking_day, af>>

\* the session state after the sidebar of the first run, from what
\* INITIALIZATION has set
after_sidebar(st) ==
    [st EXCEPT !.working_hours = ensure_working_hours(st.brygady, st.working_hours),
               !.schedules = ensure_schedules(st.brygady, st.schedules)]

\* the first run of the script in a new session on the file f: the keys of
\* st.session_state it has set, and whether an exception ended it.
\* No file, or json.load raising inside the try: load returns False and the
\* defaults are set. A JSON array: data.get raises at the first assignment.
\* Unparsable hours: slot_types, brygady and an empty working_hours are set from
\* the file before parse_time_str raises.
first_run(f) ==
    CASE file_kind(f) \in {"missing", "malformed"} ->
            [crashed |-> FALSE, state |-> after_sidebar(default_state)]
      [] file_kind(f) = "array" ->
            [crashed |-> TRUE, state |-> EmptyDict]
      [] file_kind(f) = "bad_hours" ->
            [crashed |-> TRUE,
             state |-> [slot_types |-> f.data.slot_types, brygady |-> f.data.brygady,
                        working_hours |-> EmptyDict]]
      [] OTHER ->
            [crashed |-> FALSE, state |-> after_sidebar(load_state_from_json(f.data))]

\* a new browser session is opened on the page
OpenSession ==
    /\ ~peer.open
    /\ \E r \in {first_run(disk)} :
          peer' = [open |-> TRUE, file |-> file_kind(disk), crashed |-> r.crashed,
                   state |-> r.state]
    /\ last' = Quiet
    /\ UNCHANGED <<slot_types, brygady, working_hours, schedules, clients_added,
                   client_counter, not_found_counter, booking_day, disk, af>>

\* the browser tab of that session is closed
CloseSession ==
    /\ peer.open
    /\ peer' = NoSession
    /\ last' = Quiet
    /\ UNCHANGED <<slot_types, brygady, working_hours, schedules, clients_added,
                   client_counter, not_found_counter, booking_day, disk, af>>

LoadNext ==
    \/ BookOffered
    \/ \E kind \in FileDamages : DamageFile(kind)
    \/ OpenSession
    \/ CloseSession

LoadSpec == SaveFailInit /\ [][LoadNext]_vars

----------------------------------------------------------------------------
(* Calls of schedule_client_immediately, as _run_basic_tests makes them *)

\* the state the calls start from: 30- and 60-minute slot types, the first crew
\* working 08:00-10:00 and the second 10:30-11:30, nothing booked
SciInit ==
    /\ slot_types = <<T30, Standard>>
    /\ brygady = CrewNames
    /\ working_hours = [b \in CrewsOf(CrewNames) |->
                          IF b = CrewNames[1] THEN <<T(8, 0), T(10, 0)>>
                          ELSE <<T(10, 30), T(11, 30)>>]
    /\ schedules = [b \in CrewsOf(CrewNames) |-> EmptyDict]
    /\ clients_added = <<>>
    /\ client_counter = 1
    /\ not_found_counter = 0
    /\ booking_day = Today
    /\ disk = [exists |-> FALSE]
    /\ peer = NoSession
    /\ af = AfIdle
    /\ last = Quiet

\* the slot type names the calls pass: those of the catalogue and one unknown
SciNames == {T30.name, Standard.name, "T45"}

\* ok, info = schedule_client_immediately("AutoKlient n", name, day, pref_start,
\* pref_end): on success add_slot_to_brygada has appended, sorted and saved
SciCall(name, day, l) ==
    /\ af.pc = "idle"
    /\ \E r \in {schedule_client_immediately(
                    slot_types, brygady, working_hours, schedules,
                    <<"AutoKlient", client_counter>>, name, day,
                    PREFERRED_SLOTS[l][1], PREFERRED_SLOTS[l][2])} :
          IF r.ok
          THEN /\ schedules' = add_slot_to_brygada(schedules, r.brygada, day, r.slot)
               /\ disk' = save_state_to_json(slot_types, brygady, working_hours, schedules',
                                             clients_added, client_counter, not_found_counter)
               /\ last' = [Quiet EXCEPT !.op = "sci", !.args = <<name, day, l>>, !.added = TRUE,
                                        !.placed = r.brygada, !.start = r.slot.start]
          ELSE /\ last' = [Quiet EXCEPT !.op = "sci", !.args = <<name, day, l>>]
               /\ UNCHANGED <<schedules, disk>>
    /\ UNCHANGED <<peer, slot_types, brygady, working_hours, clients_added, client_counter,
                   not_found_counter, booking_day, af>>

SciNext ==
    \E name \in SciNames, l \in DOMAIN PREFERRED_SLOTS : SciCall(name, Today, l)

SciSpec == SciInit /\ [][SciNext]_vars

----------------------------------------------------------------------------
(* Properties of the booking store and of the availability scan *)

\* the list stored for crew b under day key d_str ([] when there is none)
stored(sched, b, d_str) == Get(Get(sched, b, EmptyDict), d_str, <<>>)

\* half-open intervals [s1, e1) and [s2, e2) have a minute in common
Intersect(s1, e1, s2, e2) == s1 < e2 /\ s2 < e1

\* crews and days the properties range over: the known ones and one unknown each
SomeCrews == CrewsOf(CrewNames) \cup {"Brygada 3"}
SomeDays == week_days \cup {Today + 2}

\* durations and steps the availability scan is asked for
ScanDurations == {30, 60}
ScanSteps == {SEARCH_STEP_MINUTES, 30}

\* C1: in every reachable state, for every crew and every day key, any two
\* distinct stored bookings a, b satisfy a.end <= b.start or b.end <= a.start
C1_NoOverlap ==
    \A b \in DOMAIN schedules : \A d \in DOMAIN schedules[b] :
        \A i, j \in 1 .. Len(schedules[b][d]) :
            i # j => \/ schedules[b][d][i].end <= schedules[b][d][j].start
                     \/ schedules[b][d][j].end <= schedules[b][d][i].start

\* a crew/day that holds a manual booking and an auto-fill booking that touch
C1_Witness ==
    \E b \in DOMAIN schedules : \E d \in DOMAIN schedules[b] :
        \E i, j \in 1 .. Len(schedules[b][d]) :
            /\ schedules[b][d][i].client[1] = "Klient"
            /\ schedules[b][d][j].client[1] = "AutoKlient"
            /\ \/ schedules[b][d][i].end = schedules[b][d][j].start
               \/ schedules[b][d][j].end = schedules[b][d][i].start

\* the working window of crew b on a day
crew_window(b, day) ==
    LET hours == Get(working_hours, b, <<DEFAULT_WORK_START, DEFAULT_WORK_END>>)
    IN  window(day, hours[1], hours[2])

\* the scan of the current state
scan_now(day, dur, step) ==
    get_available_slots_for_day(brygady, working_hours, schedules, day, dur, step)

\* candidate c overlaps no booking stored for its crew on the day
FreeOf(c, day) ==
    \A i \in 1 .. Len(stored(schedules, c.brygada, strftime(day))) :
        ~Intersect(c.start, c.end,
                   stored(schedules, c.brygada, strftime(day))[i].start,
                   stored(schedules, c.brygada, strftime(day))[i].end)

\* C2: a commit of a candidate that overlaps a booking the store holds for its
\* crew and day by the time of the commit fails: it adds nothing
C2_StaleCommitFails ==
    (last.op = "book" /\ last.stale) => ~last.added

\* C3: every candidate the scan returns has end = start + duration, lies inside
\* its crew's working window and overlaps no booking stored for that crew and day
C3_CandidateSoundness ==
    \A day \in week_days, dur \in ScanDurations, step \in ScanSteps :
        \A c \in Range(scan_now(day, dur, step)) :
            /\ c.brygada \in CrewsOf(brygady)
            /\ c.end = c.start + dur
            /\ \A w \in {crew_window(c.brygada, day)} : c.start >= w[1] /\ c.end <= w[2]
            /\ FreeOf(c, day)

\* a crew/day with a booking for which the scan still returns a candidate and
\* leaves out a start of the grid
C3_Witness ==
    \E b \in CrewsOf(brygady) :
        /\ Len(stored(schedules, b, strftime(Today))) >= 1
        /\ \E c \in Range(scan_now(Today, 30, SEARCH_STEP_MINUTES)) : c.brygada = b
        /\ \E t \in {crew_window(b, Today)[1], crew_window(b, Today)[1] + SEARCH_STEP_MINUTES} :
              \A c \in Range(scan_now(Today, 30, SEARCH_STEP_MINUTES)) :
                  ~(c.brygada = b /\ c.start = t)

\* the free starts of crew b: window start + k * step that fit and overlap nothing
ExpectedStarts(b, day, dur, step) ==
    LET w == crew_window(b, day)
    IN  {t \in {w[1] + k * step : k \in 0 .. ((w[2] - w[1]) \div step)} :
            /\ t + dur <= w[2]
            /\ FreeOf([brygada |-> b, start |-> t, end |-> t + dur], day)}

\* the scan of one crew with hours 08:00-10:00 that holds the given bookings
example_scan(slots) ==
    get_available_slots_for_day(<<"Brygada 1">>, [b \in {"Brygada 1"} |-> <<T(8, 0), T(10, 0)>>],
                                [b \in {"Brygada 1"} |-> Put(EmptyDict, strftime(Today), slots)],
                                Today, 60, 30)

example_booking ==
    [start |-> combine(Today, T(8, 0)), end |-> combine(Today, T(9, 0)),
     slot_type |-> "Standard", duration_min |-> 60, client |-> <<"Klient", 1>>,
     pref_range |-> None]

\* C4: for each registered crew the scan returns exactly the starts
\* window start + k * step with start + duration <= window end that overlap no
\* booking (touching an endpoint is free), each once; hours 08:00-10:00, step 30,
\* duration 60 give 08:00, 08:30, 09:00, and only 09:00 once 08:00-09:00 is booked
C4_CandidateCompleteness ==
    /\ \A day \in week_days, dur \in ScanDurations, step \in ScanSteps :
          \A r \in {scan_now(day, dur, step)} :
             /\ {<<r[i].brygada, r[i].start>> : i \in 1 .. Len(r)}
                   = UNION {{<<b, t>> : t \in ExpectedStarts(b, day, dur, step)} :
                               b \in CrewsOf(brygady)}
             /\ Len(r) = Cardinality({<<r[i].brygada, r[i].start>> : i \in 1 .. Len(r)})
    /\ [i \in 1 .. Len(example_scan(<<>>)) |-> example_scan(<<>>)[i].start]
          = <<combine(Today, T(8, 0)), combine(Today, T(8, 30)), combine(Today, T(9, 0))>>
    /\ [i \in 1 .. Len(example_scan(<<example_booking>>)) |-> example_scan(<<example_booking>>)[i].start]
          = <<combine(Today, T(9, 0))>>

\* the scan returns a candidate that starts where a stored booking ends and one
\* that ends where a stored booking starts
C4_Witness ==
    \A r \in {scan_now(Today, 30, SEARCH_STEP_MINUTES)} :
        /\ \E k \in 1 .. Len(r) :
              \E i \in 1 .. Len(stored(schedules, r[k].brygada, strftime(Today))) :
                  r[k].start = stored(schedules, r[k].brygada, strftime(Today))[i].end
        /\ \E k \in 1 .. Len(r) :
              \E i \in 1 .. Len(stored(schedules, r[k].brygada, strftime(Today))) :
                  r[k].end = stored(schedules, r[k].brygada, strftime(Today))[i].start

\* C5: the list the scan returns is ascending by (start, crew name)
C5_CandidateOrdering ==
    \A day \in week_days, dur \in ScanDurations, step \in ScanSteps :
        \A r \in {scan_now(day, dur, step)} :
            \A i \in 1 .. Len(r) - 1 :
                \/ r[i].start < r[i + 1].start
                \/ /\ r[i].start = r[i + 1].start
                   /\ NameRank(r[i].brygada) <= NameRank(r[i + 1].brygada)

\* the registry lists "Brygada 2" first and the scan returns both crews at one
\* start, and a later start of the first registered crew after them
C5_Witness ==
    /\ brygady = <<"Brygada 2", "Brygada 1">>
    /\ Len(stored(schedules, "Brygada 1", strftime(Today))) >= 1
    /\ \A r \in {scan_now(Today, 30, SEARCH_STEP_MINUTES)} :
          \E i \in 1 .. Len(r) - 2 :
              /\ r[i].brygada = "Brygada 1"
              /\ r[i + 1].brygada = "Brygada 2"
              /\ r[i].start = r[i + 1].start
              /\ r[i + 2].brygada = "Brygada 2"

\* the list is ascending by start
SortedByStart(slots) == \A i \in 1 .. Len(slots) - 1 : slots[i].start <= slots[i + 1].start

\* C6: every stored crew/day list is ascending by start, and
\* get_day_slots_for_brygada returns the stored bookings in that order, or the
\* empty list when the crew or the day has no entry
C6_SortedStore ==
    /\ \A b \in DOMAIN schedules : \A d \in DOMAIN schedules[b] : SortedByStart(schedules[b][d])
    /\ \A b \in SomeCrews, day \in SomeDays :
          \A r \in {get_day_slots_for_brygada(schedules, b, day)} :
             /\ SortedByStart(r)
             /\ r = stored(schedules, b, strftime(day))
             /\ (b \notin DOMAIN schedules \/ strftime(day) \notin DOMAIN Get(schedules, b, EmptyDict))
                   => r = <<>>

\* a list whose first booking was inserted after its second one (client numbers
\* count the bookings), next to a crew that has no entry for the day
C6_Witness ==
    /\ \E b \in DOMAIN schedules : \E d \in DOMAIN schedules[b] :
          /\ Len(schedules[b][d]) = 2
          /\ schedules[b][d][1].client[2] > schedules[b][d][2].client[2]
    /\ \E b \in DOMAIN schedules : strftime(Today) \notin DOMAIN schedules[b]

\* the start datetimes delete_slot is asked for: every stored one and one more
SomeStarts == {x[3].start : x \in Bookings(schedules)} \cup {combine(Today, T(8, 45))}

\* C7: delete_slot(crew, day, matchStart) removes exactly the bookings of that
\* crew/day whose start equals matchStart, keeps the others in their order, and
\* leaves the set of bookings unchanged when none matches (unknown crew or day
\* included)
C7_Remove ==
    \A b \in SomeCrews, day \in SomeDays, t \in SomeStarts :
        \A new \in {delete_slot(schedules, b, strftime(day), _datetime_to_iso(t))} :
            /\ stored(new, b, strftime(day))
                  = SelectSeq(stored(schedules, b, strftime(day)), LAMBDA x : x.start # t)
            /\ Bookings(new) = {x \in Bookings(schedules) :
                                   ~(x[1] = b /\ x[2] = strftime(day) /\ x[3].start = t)}
            /\ (\A i \in 1 .. Len(stored(schedules, b, strftime(day))) :
                   stored(schedules, b, strftime(day))[i].start # t)
                  => Bookings(new) = Bookings(schedules)

\* the delete button removed one booking of a crew/day and kept another one
C7_Witness ==
    /\ last.op = "delete"
    /\ \E d \in DOMAIN schedules[last.crew] : Len(schedules[last.crew][d]) >= 1
    /\ Cardinality(Bookings(schedules)) >= 2

----------------------------------------------------------------------------
(* Properties of the auto-fill run *)

\* the run is between two rounds and the round just finished added no booking
RoundAddedNothing ==
    af.pc = "while" /\ af.iteration >= 1 /\ client_counter = af.round_start

\* the number of steps the running auto-fill handler can still take, at most:
\* the passes left in this round, the rounds left below the cap, the final check
StepsLeft ==
    CASE af.pc = "idle"  -> 0
      [] af.pc = "while" -> 1 + (max_iterations - af.iteration) * (Len(brygady) + 1)
      [] af.pc = "for"   -> 1 + (Len(brygady) - af.i + 1)
                              + (max_iterations - af.iteration) * (Len(brygady) + 1)

\* the running handler is at a point from which it has a next step
CanStep ==
    \/ af.pc = "while"
    \/ af.pc = "for" /\ af.i \in 1 .. Len(brygady) /\ weighted_choice(slot_types) # {}

\* C8: a started auto-fill run ends: it always has a next step and every step
\* brings it closer to its end; it never executes more than max_iterations
\* rounds, and it ends exactly after a round that added no booking or at the cap
C8_Termination ==
    /\ [](af.iteration <= max_iterations /\ StepsLeft >= 0)
    /\ [](af.pc # "idle" => CanStep)
    /\ [][af.pc # "idle" => StepsLeft' < StepsLeft]_vars
    /\ [][(RoundAddedNothing \/ (af.pc = "while" /\ af.iteration >= max_iterations))
             => af'.pc = "idle"]_vars
    /\ [][(af.pc = "while" /\ af'.pc = "idle")
             => (RoundAddedNothing \/ af.iteration = max_iterations)]_vars

\* a run ended at the cap although its last round added a booking
C8_Witness ==
    last.op = "done" /\ last.iteration = max_iterations /\ last.added

\* some registered crew can take one more booking on the day: a slot of some
\* type has a free start of the search grid inside some preferred range and the
\* working window
CanAcceptMore(day) ==
    \E ti \in 1 .. Len(slot_types), label \in DOMAIN PREFERRED_SLOTS :
        candidates_of(brygady, working_hours, schedules, day, slot_types[ti].minutes,
                      PREFERRED_SLOTS[label][1], PREFERRED_SLOTS[label][2]) # <<>>

\* C9: when an auto-fill run has ended before the iteration cap, no registered
\* crew can accept another booking for that day
C9_FilledWhenDone ==
    (last.op = "done" /\ last.iteration < max_iterations) => ~CanAcceptMore(Today)

\* C10: a booking created during the turn of crew b is added to the schedule of b
C10_PlacedOnTurnCrew ==
    (last.op = "turn" /\ last.added) => last.placed = last.crew

\* the bookings an auto-fill run created, as <<crew, day key, booking>>
AutoBookings == {x \in Bookings(schedules) : x[3].client[1] = "AutoKlient"}

\* C11: once the auto-fill run has finished, every booking it created carries
\* the label of the preferred range drawn for the attempt that created it, and
\* its [start, end) lies inside that range
C11_AutoFillTagged ==
    af.pc = "idle" =>
        \A x \in AutoBookings :
            /\ x[3].pref_range \in DOMAIN PREFERRED_SLOTS
            /\ \E i \in 1 .. Len(clients_added) :
                  /\ clients_added[i].client = x[3].client
                  /\ clients_added[i].pref_range = x[3].pref_range
            /\ \A p \in {window(x[2][2], PREFERRED_SLOTS[x[3].pref_range][1],
                                PREFERRED_SLOTS[x[3].pref_range][2])} :
                  p[1] <= x[3].start /\ x[3].end <= p[2]

----------------------------------------------------------------------------
(* Properties of the windows over midnight *)

\* times of day the window rule is asked about
SomeTimes == {T(0, 0), T(0, 30), T(6, 0), T(8, 0), T(16, 0), T(22, 0), T(23, 0), T(23, 59)}

\* the 90-minute candidate of the first crew that starts 23:00 and ends 00:30
night_candidate ==
    [brygada |-> CrewNames[1], start |-> combine(Today, T(23, 0)),
     end |-> combine(Today + 1, T(0, 30))]

\* C12: a (start, end) pair of times combined with a day ends on the next day
\* when end <= start, so the window is longer than 0 and at most 24 hours, and
\* _wh_minutes is its length; the crew with hours 22:00-06:00 has 480 minutes,
\* is offered the 90-minute candidate 23:00-00:30 whenever it is free, also by
\* schedule_client_immediately for a range 23:00-01:00, and every booking is
\* stored under the day key of the window it lies in
C12_OvernightWindow ==
    /\ \A day \in week_days, t_start \in SomeTimes, t_end \in SomeTimes :
          \A w \in {window(day, t_start, t_end)} :
             /\ w[1] = combine(day, t_start)
             /\ w[2] = IF t_end <= t_start THEN combine(day + 1, t_end) ELSE combine(day, t_end)
             /\ 0 < w[2] - w[1] /\ w[2] - w[1] <= MinutesPerDay
             /\ _wh_minutes(t_start, t_end) = w[2] - w[1]
    /\ _wh_minutes(working_hours[CrewNames[1]][1], working_hours[CrewNames[1]][2]) = 480
    /\ crew_window(CrewNames[1], Today) = <<combine(Today, T(22, 0)), combine(Today + 1, T(6, 0))>>
    /\ FreeOf(night_candidate, Today) <=> night_candidate \in Range(scan_now(Today, 90, SEARCH_STEP_MINUTES))
    /\ FreeOf(night_candidate, Today) =>
          \A r \in {schedule_client_immediately(slot_types, brygady, working_hours, schedules,
                                                <<"Klient", 0>>, T90.name, Today,
                                                T(23, 0), T(1, 0))} :
             r.ok /\ r.slot.start = night_candidate.start /\ r.slot.end = night_candidate.end
    /\ \A x \in Bookings(schedules) :
          \A w \in {crew_window(x[1], x[2][2])} : w[1] <= x[3].start /\ x[3].end <= w[2]

\* the candidate 23:00-00:30 was booked: it is stored under today's key and
\* ends on the next calendar day
C12_Witness ==
    /\ last.op = "book"
    /\ \E i \in 1 .. Len(stored(schedules, CrewNames[1], strftime(Today))) :
          /\ stored(schedules, CrewNames[1], strftime(Today))[i].start = night_candidate.start
          /\ stored(schedules, CrewNames[1], strftime(Today))[i].end = night_candidate.end
          /\ night_candidate.end \div MinutesPerDay = Today + 1

----------------------------------------------------------------------------
(* Properties of the scan for durations that are not positive *)

\* durations that are not positive
NonPositiveDurations == {0 - 30, 0}

\* C13: the availability scan asked for a duration of 0 or less returns no
\* candidate, for the slot types of the session and for any such duration
C13_InvalidDurationRejected ==
    /\ \A ti \in 1 .. Len(slot_types) :
          slot_types[ti].minutes <= 0 => available_slots(slot_types[ti]) = <<>>
    /\ \A dur \in NonPositiveDurations : scan_now(Today, dur, SEARCH_STEP_MINUTES) = <<>>

----------------------------------------------------------------------------
(* Properties of ensure_brygady_in_state *)

\* the crew lists ensure_brygady_in_state is asked about
SomeCrewLists == BrygadyEdits \cup {<<>>, <<"Brygada 2", "Brygada 2">>}

\* C14: ensure_brygady_in_state gives a crew absent from working_hours the
\* hours 08:00-16:00 and a crew absent from schedules an empty day map, leaves
\* the hours and the bookings of every crew already there as they are, and
\* applied twice yields what it yields applied once
C14_EnsureCrew ==
    \A bs \in SomeCrewLists :
        \A wh \in {ensure_working_hours(bs, working_hours)}, sc \in {ensure_schedules(bs, schedules)} :
            /\ DOMAIN wh = DOMAIN working_hours \cup CrewsOf(bs)
            /\ DOMAIN sc = DOMAIN schedules \cup CrewsOf(bs)
            /\ \A b \in CrewsOf(bs) \ DOMAIN working_hours : wh[b] = <<T(8, 0), T(16, 0)>>
            /\ \A b \in CrewsOf(bs) \ DOMAIN schedules : DOMAIN sc[b] = {}
            /\ \A b \in DOMAIN working_hours : wh[b] = working_hours[b]
            /\ \A b \in DOMAIN schedules : sc[b] = schedules[b]
            /\ ensure_working_hours(bs, wh) = wh
            /\ ensure_schedules(bs, sc) = sc

\* the crew list was edited: "Brygada 3" stands with the default hours and no
\* day, next to a crew that kept its own hours and a booking
C14_Witness ==
    /\ last.op = "crews"
    /\ "Brygada 3" \in DOMAIN working_hours /\ "Brygada 3" \in DOMAIN schedules
    /\ working_hours["Brygada 3"] = <<T(8, 0), T(16, 0)>>
    /\ DOMAIN schedules["Brygada 3"] = {}
    /\ \E b \in DOMAIN schedules :
          /\ working_hours[b] # <<T(8, 0), T(16, 0)>>
          /\ \E d \in DOMAIN schedules[b] : Len(schedules[b][d]) >= 1

----------------------------------------------------------------------------
(* Properties of weighted_choice *)

\* the names of the catalogue, and those of its entries of weight > 0
NamesOf(types) == {types[i].name : i \in 1 .. Len(types)}
PositiveNamesOf(types) == {types[i].name : i \in {j \in 1 .. Len(types) : types[j].weight > 0}}

\* C15: weighted_choice returns None exactly for the empty catalogue; for a
\* non-empty one it returns, without error, the name of an entry, one of
\* weight > 0 whenever there is such an entry
C15_WeightedPick ==
    /\ weighted_choice(<<>>) = {None}
    /\ \A x \in weighted_choice(slot_types) :
          /\ x \in NamesOf(slot_types)
          /\ PositiveNamesOf(slot_types) # {} => x \in PositiveNamesOf(slot_types)
    /\ last.op = "pick" => last.picked \in NamesOf(slot_types)

----------------------------------------------------------------------------
(* Properties of a failed save *)

\* the bookings the file holds after save_state_to_json() of the session state
saved_now ==
    Bookings(load_state_from_json(
                 save_state_to_json(slot_types, brygady, working_hours, schedules, clients_added,
                                    client_counter, not_found_counter).data).schedules)

\* C16: after a booking whose save failed the booking is in the schedules in
\* memory (and not in the file), the lists in memory are still sorted and free
\* of overlap, a save of the state would write every booking in memory, and
\* after every later handler that saved the file holds every booking in memory
C16_SaveFailureKeepsCommit ==
    /\ last.op = "save_failed" =>
          \E x \in unsaved :
             /\ x[1] = last.placed
             /\ x[2] = strftime(booking_day)
             /\ x[3].start = last.start
    /\ \A b \in DOMAIN schedules : \A d \in DOMAIN schedules[b] :
          /\ SortedByStart(schedules[b][d])
          /\ \A i, j \in 1 .. Len(schedules[b][d]) :
                i < j => schedules[b][d][i].end <= schedules[b][d][j].start
    /\ Bookings(schedules) \subseteq saved_now
    /\ last.op # "save_failed" => unsaved = {}

\* a booking was saved after the save of another had failed: the file holds two
\* bookings under one client name, which only an unfinished handler leaves
C16_Witness ==
    /\ last.op = "book"
    /\ \E x, y \in Bookings(persisted_schedules) : x # y /\ x[3].client = y[3].client

----------------------------------------------------------------------------
(* Properties of the first run of a session *)

\* C17: a session opened while schedules.json is missing or cannot be read as
\* a saved state starts without an exception and holds exactly the defaults:
\* Standard/60/1, the two default crews with no booking, client_counter 1,
\* not_found_counter 0, and so nothing taken from the file
C17_LoadFallback ==
    (peer.open /\ "file" \in DOMAIN peer /\ peer.file # "state") =>
        /\ ~peer.crashed
        /\ peer.state = after_sidebar(default_state)

----------------------------------------------------------------------------
(* Properties of save_state_to_json followed by load_state_from_json *)

\* the session state load_state_from_json sets from a save of the current one
reloaded ==
    load_state_from_json(
        save_state_to_json(slot_types, brygady, working_hours, schedules, clients_added,
                           client_counter, not_found_counter).data)

\* the bookings of sched with the label read as the save reads it
labels_read(sched) ==
    [b \in DOMAIN sched |->
        [d \in DOMAIN sched[b] |->
            [i \in 1 .. Len(sched[b][d]) |->
                [sched[b][d][i] EXCEPT !.pref_range = get_pref_range(sched[b][d][i])]]]]

\* C18: in every reachable state, saving the state and loading the file gives
\* the same crews, the same working hours and, for every crew and day, the same
\* list of bookings with the same start, end, slot type, duration, client and
\* pref_range
C18_RoundTrip ==
    /\ reloaded.brygady = brygady
    /\ reloaded.working_hours = working_hours
    /\ reloaded.schedules = schedules

\* the same with a missing pref_range key taken for the label None
RoundTripOfLabelsRead ==
    /\ reloaded.brygady = brygady
    /\ reloaded.working_hours = working_hours
    /\ reloaded.schedules = labels_read(schedules)

----------------------------------------------------------------------------
(* Properties of the arrival window of a booking *)

\* the buffers of the arrival window, in minutes
buffers == [before |-> 15, after |-> 15]

\* [start - before, start + after] moved into the working window w = <<from, to>>
clipped_window(start, w) ==
    IF start - buffers.before < w[1] THEN <<w[1], w[1] + buffers.before + buffers.after>>
    ELSE IF start + buffers.after > w[2] THEN <<w[2] - buffers.before - buffers.after, w[2]>>
    ELSE <<start - buffers.before, start + buffers.after>>

\* the day of a day key
day_of(d_str) == d_str[2]

\* C19: every stored booking carries an arrival window of length
\* before + after around its start, moved forward to begin at the start of the
\* crew's working window when it would begin earlier and moved backward to end
\* at its end when it would end later (08:00-16:00, 15/15, start 08:05 gives
\* 08:00-08:30)
C19_ArrivalWindowClipped ==
    /\ clipped_window(combine(Today, T(8, 5)), window(Today, T(8, 0), T(16, 0)))
          = <<combine(Today, T(8, 0)), combine(Today, T(8, 30))>>
    /\ \A x \in Bookings(schedules) :
          /\ "arrival_window" \in DOMAIN x[3]
          /\ x[3].arrival_window = clipped_window(x[3].start, crew_window(x[1], day_of(x[2])))

----------------------------------------------------------------------------
(* Properties of the slot schedule_client_immediately chooses *)

\* the starts of crew b on the day that lie on the step grid from the start of
\* (working window /\ preferred range), end inside it after dur minutes, and
\* overlap no booking stored for b on the day
free_starts(b, day, dur, pref) ==
    LET w == crew_window(b, day)
        p == window(day, pref[1], pref[2])
        from == IF w[1] >= p[1] THEN w[1] ELSE p[1]
        to == IF w[2] <= p[2] THEN w[2] ELSE p[2]
    IN  {t \in {from + k * SEARCH_STEP_MINUTES : k \in 0 .. ((to - dur - from) \div SEARCH_STEP_MINUTES)} :
            \A x \in Range(stored(schedules, b, strftime(day))) :
                t + dur <= x.start \/ t >= x.end}

\* schedule_client_immediately on the session state
sci_now(ti, day, l) ==
    schedule_client_immediately(slot_types, brygady, working_hours, schedules,
                                <<"AutoKlient", client_counter>>, slot_types[ti].name, day,
                                PREFERRED_SLOTS[l][1], PREFERRED_SLOTS[l][2])

\* C20: schedule_client_immediately finds a slot exactly when some crew has a
\* free start; the slot starts at the least free start of all crews, on a crew
\* that has this start free and whose total booked minutes are least among the
\* crews that have it free
C20_EarliestLeastLoaded ==
    \A day \in week_days, ti \in 1 .. Len(slot_types), l \in DOMAIN PREFERRED_SLOTS :
       \A r \in {sci_now(ti, day, l)} :
       \A free \in {[b \in CrewsOf(brygady) |->
                       free_starts(b, day, slot_types[ti].minutes, PREFERRED_SLOTS[l])]} :
          /\ r.ok <=> \E b \in CrewsOf(brygady) : free[b] # {}
          /\ r.ok =>
                /\ r.brygada \in CrewsOf(brygady)
                /\ r.slot.start \in free[r.brygada]
                /\ r.slot.end = r.slot.start + slot_types[ti].minutes
                /\ \A b \in CrewsOf(brygady) : \A t \in free[b] : r.slot.start <= t
                /\ \A b \in CrewsOf(brygady) :
                      r.slot.start \in free[b] =>
                          total_minutes(schedules, r.brygada) <= total_minutes(schedules, b)

\* an auto-fill turn has just placed its booking on another crew than the first
\* of the list, which had the same start free but more minutes booked
C20_Witness ==
    /\ last.op = "turn"
    /\ last.added
    /\ last.placed # brygady[1]
    /\ \E x \in Bookings(schedules) :
          /\ x[1] = last.placed
          /\ x[3].client = <<"AutoKlient", client_counter - 1>>
          /\ \A y \in Range(stored(schedules, brygady[1], x[2])) :
                x[3].end <= y.start \/ x[3].start >= y.end
          /\ \A w \in {crew_window(brygady[1], day_of(x[2]))} :
                w[1] = crew_window(last.placed, day_of(x[2]))[1] /\ x[3].end <= w[2]
          /\ total_minutes(schedules, brygady[1]) > total_minutes(schedules, last.placed) - x[3].duration_min

----------------------------------------------------------------------------
(* Properties of a call of schedule_client_immediately *)

\* the call with slot type name, day and preferred range l can place a slot:
\* the name is in the catalogue and some crew of the list has a free start
can_place(name, day, l) ==
    /\ name \in NamesOf(slot_types)
    /\ \E b \in CrewsOf(brygady) :
          free_starts(b, day, find_slot_type(slot_types, name).minutes, PREFERRED_SLOTS[l]) # {}

\* C21: a call of schedule_client_immediately returns (False, None) and leaves
\* the schedules, the counters and the file as they were exactly when the name
\* is not in the catalogue or no crew has a free start; otherwise it returns
\* (True, slot) and the schedules gain exactly that one booking, which overlaps
\* no booking of its crew and day
C21_SucceedsWhenItCan ==
    [][last'.op = "sci" =>
          \A a \in {last'.args} : \A can \in {can_place(a[1], a[2], a[3])} :
             /\ last'.added <=> can
             /\ ~can => /\ schedules' = schedules
                        /\ disk' = disk
                        /\ clients_added' = clients_added
                        /\ client_counter' = client_counter
                        /\ not_found_counter' = not_found_counter
             /\ can => /\ Bookings(schedules) \subseteq Bookings(schedules')
                       /\ Cardinality(Bookings(schedules')) = Cardinality(Bookings(schedules)) + 1
                       /\ \A x \in Bookings(schedules') \ Bookings(schedules) :
                             /\ x[1] = last'.placed
                             /\ x[2] = strftime(a[2])
                             /\ x[3].start = last'.start
                             /\ x[3].slot_type = a[1]
                             /\ \A y \in Range(stored(schedules, x[1], x[2])) :
                                   x[3].end <= y.start \/ y.end <= x[3].start
    ]_vars

\* a call has just succeeded on a crew and day that now hold three bookings
C21_Witness ==
    /\ last.op = "sci"
    /\ last.added
    /\ Len(stored(schedules, last.placed, strftime(last.args[2]))) >= 3

----------------------------------------------------------------------------
(* Properties of the bookings and the working hours *)

\* C22: every stored booking of a crew and day starts at or after the start of
\* the crew's working window of that day and ends at or before its end, and
\* the booked minutes of a crew on a day are at most the crew's working minutes
C22_InsideWorkingHours ==
    /\ \A x \in Bookings(schedules) :
          \A w \in {crew_window(x[1], day_of(x[2]))} :
             w[1] <= x[3].start /\ x[3].end <= w[2]
    /\ \A b \in DOMAIN schedules : \A d \in DOMAIN schedules[b] :
          \A hours \in {Get(working_hours, b, <<DEFAULT_WORK_START, DEFAULT_WORK_END>>)} :
             used_minutes(schedules[b][d]) <= _wh_minutes(hours[1], hours[2])

\* a crew whose day is booked to 100% by a manual booking and an auto-fill one
C22_Witness ==
    \E b \in DOMAIN schedules : \E d \in DOMAIN schedules[b] :
        /\ used_minutes(schedules[b][d]) = _wh_minutes(working_hours[b][1], working_hours[b][2])
        /\ \E i, j \in 1 .. Len(schedules[b][d]) :
              /\ schedules[b][d][i].client[1] = "Klient"
              /\ schedules[b][d][j].client[1] = "AutoKlient"

----------------------------------------------------------------------------
(* Properties of what an insert or a delete leaves alone *)

\* the <<crew, day key>> pairs whose booking list differs between old and new
lists_changed(old, new) ==
    {k \in (DOMAIN old \cup DOMAIN new \cup SomeCrews) \X {strftime(d) : d \in SomeDays} :
        stored(old, k[1], k[2]) # stored(new, k[1], k[2])}

\* a booking to insert that is not stored yet
new_slot(t) ==
    [start |-> t, end |-> t + T30.minutes, slot_type |-> T30.name,
     duration_min |-> T30.minutes, client |-> <<"Klient", 0>>, pref_range |-> None]

\* C23: add_slot_to_brygada and delete_slot for a crew and day change the
\* booking list of no other crew and of no other day of that crew, and a step
\* of the page that books or deletes changes at most one crew/day list and
\* leaves the crew list, the working hours and the slot types as they were
C23_Frame ==
    [][/\ \A b \in SomeCrews, day \in SomeDays, t \in SomeStarts :
             /\ lists_changed(schedules, add_slot_to_brygada(schedules, b, day, new_slot(t)))
                   = {<<b, strftime(day)>>}
             /\ lists_changed(schedules,
                              delete_slot(schedules, b, strftime(day), _datetime_to_iso(t)))
                   \subseteq {<<b, strftime(day)>>}
       /\ last'.op \in {"book", "delete"} =>
             /\ Cardinality(lists_changed(schedules, schedules')) = 1
             /\ last'.op = "book" =>
                   lists_changed(schedules, schedules') = {<<last'.placed, strftime(booking_day)>>}
             /\ last'.op = "delete" =>
                   \A k \in lists_changed(schedules, schedules') : k[1] = last'.crew
             /\ brygady' = brygady
             /\ working_hours' = working_hours
             /\ slot_types' = slot_types
    ]_vars

\* a booking was just inserted for a crew that holds bookings on another day,
\* while the other crew holds bookings too
C23_Witness ==
    /\ last.op = "book"
    /\ \E d \in week_days :
          d # booking_day /\ stored(schedules, last.placed, strftime(d)) # <<>>
    /\ \E b \in CrewsOf(brygady) :
          b # last.placed /\ stored(schedules, b, strftime(booking_day)) # <<>>

----------------------------------------------------------------------------
(* Properties of client_counter and clients_added *)

\* the clients of the entries of clients_added that the auto-fill wrote
auto_names == {clients_added[i].client : i \in {j \in 1 .. Len(clients_added) :
                                                   clients_added[j].client[1] = "AutoKlient"}}

\* client_counter is one more than the number of clients added, and no two
\* auto-fill entries or stored auto-fill bookings have the same client name
counters_agree ==
    /\ client_counter = 1 + Len(clients_added)
    /\ Cardinality(auto_names)
          = Cardinality({j \in 1 .. Len(clients_added) : clients_added[j].client[1] = "AutoKlient"})
    /\ \A x, y \in AutoBookings : x[3].client = y[3].client => x = y

\* C24: between the steps of the page client_counter = 1 + len(clients_added)
\* and the names "AutoKlient n" are distinct; a booking, manual or by the
\* auto-fill, adds one to both, a delete changes neither, and a clear sets them
\* to 1 and the empty list
C24_Counters ==
    [][/\ counters_agree
       /\ counters_agree'
       /\ (last'.op = "book" \/ (last'.op = "turn" /\ last'.added)) =>
             /\ client_counter' = client_counter + 1
             /\ Len(clients_added') = Len(clients_added) + 1
             /\ SubSeq(clients_added', 1, Len(clients_added)) = clients_added
       /\ (last'.op = "delete" \/ (last'.op = "turn" /\ ~last'.added)) =>
             /\ client_counter' = client_counter
             /\ clients_added' = clients_added
       /\ ClearSchedule => client_counter' = 1 /\ clients_added' = <<>>
    ]_vars

\* a booking was just deleted after an auto-fill run had counted two clients
C24_Witness ==
    /\ last.op = "delete"
    /\ Cardinality(auto_names) >= 2
    /\ client_counter = 1 + Len(clients_added)
    /\ Cardinality(Bookings(schedules)) < Len(clients_added)

----------------------------------------------------------------------------
(* Properties of the file after a handler has finished *)

\* C25: after a manual booking, and after an auto-fill run in a session that
\* has a file, schedules.json holds the state in memory: every stored booking
\* with the same fields, the pref_range label included, and the same
\* clients_added and client_counter
C25_PersistedIsCurrent ==
    (last.op = "book" \/ (last.op = "done" /\ disk.exists)) =>
        /\ file_kind(disk) = "state"
        /\ \A st \in {load_state_from_json(disk.data)} :
              /\ st.schedules = labels_read(schedules)
              /\ st.clients_added = clients_added
              /\ st.client_counter = client_counter

====
